---- MODULE Spec2Model ----
(***************************************************************************)
(* Model of `rye publish` (src/rye/src/cli/publish.rs): resolution of the  *)
(* access token from the command line, the credentials file or a prompt,   *)
(* its optional passphrase encryption, and the upload.                     *)
(*                                                                         *)
(* A String is the sequence of its UTF-8 bytes (0..255); an Option is a    *)
(* sequence of length 0 (None) or 1 (Some).                                *)
(***************************************************************************)
EXTENDS Integers, Sequences, FiniteSets, TLC

None == <<>>
Some(x) == <<x>>
IsSome(o) == Len(o) = 1
Get(o) == o[1]

\* ------------------------------------------------------------ bounds
\* Number of distinct salts the encryptor may draw.
NumSalts == 1

\* ------------------------------------------------------- characters
DQUOTE == 34
BSLASH == 92
SQUOTE == 39
SPACE == 32
NEWLINE == 10

\* Rust's char::is_whitespace restricted to one-byte characters.
Whitespace == {9, 10, 11, 12, 13, SPACE}

RECURSIVE SumBytes(_)
SumBytes(s) == IF s = <<>> THEN 0 ELSE s[1] + SumBytes(Tail(s))

RECURSIVE TrimStart(_)
TrimStart(s) ==
    IF s # <<>> /\ s[1] \in Whitespace THEN TrimStart(Tail(s)) ELSE s

RECURSIVE TrimEnd(_)
TrimEnd(s) ==
    IF s # <<>> /\ s[Len(s)] \in Whitespace
    THEN TrimEnd(SubSeq(s, 1, Len(s) - 1))
    ELSE s

\* str::trim
Trim(s) == TrimEnd(TrimStart(s))

\* str::replace(['\\', '"'], "")
RemoveChars(s, cs) == SelectSeq(s, LAMBDA c : c \notin cs)

\* escape_string: s.trim().replace(['\\', '"'], "")
escape_string(s) == RemoveChars(Trim(s), {BSLASH, DQUOTE})

\* Mutant of pad_hex: the parity test inverted.
pad_hex_EvenPadded(s) == IF Len(s) % 2 = 0 THEN <<48>> \o s ELSE s

\* pad_hex: a leading "0" for a string of odd length
pad_hex(s) == IF Len(s) % 2 = 1 THEN <<48>> \o s ELSE s

\* --------------------------------------------------------------- hex
HexDigit(n) == IF n < 10 THEN 48 + n ELSE 87 + n

RECURSIVE HexEncode(_)
\* hex::encode: two lowercase digits per byte
HexEncode(bytes) ==
    IF bytes = <<>> THEN <<>>
    ELSE <<HexDigit(bytes[1] \div 16), HexDigit(bytes[1] % 16)>>
         \o HexEncode(Tail(bytes))

IsHexChar(c) ==
    \/ c \in 48..57
    \/ c \in 97..102
    \/ c \in 65..70

HexVal(c) ==
    IF c \in 48..57 THEN c - 48
    ELSE IF c \in 97..102 THEN c - 87
    ELSE c - 55

RECURSIVE HexPairs(_)
HexPairs(s) ==
    IF s = <<>> THEN <<>>
    ELSE <<16 * HexVal(s[1]) + HexVal(s[2])>> \o HexPairs(Tail(Tail(s)))

\* hex::decode: an error for an odd length or a character that is no digit
HexDecode(s) ==
    IF Len(s) % 2 = 1 \/ \E i \in 1..Len(s) : ~IsHexChar(s[i])
    THEN [ok |-> FALSE, bytes |-> <<>>]
    ELSE [ok |-> TRUE, bytes |-> HexPairs(s)]

\* ------------------------------------------------------------- UTF-8
IsCont(b) == b \in 128..191

RECURSIVE IsUtf8(_)
\* String::from_utf8's validity check
IsUtf8(b) ==
    IF b = <<>> THEN TRUE
    ELSE IF b[1] < 128 THEN IsUtf8(Tail(b))
    ELSE IF b[1] \in 194..223
         THEN Len(b) >= 2 /\ IsCont(b[2]) /\ IsUtf8(SubSeq(b, 3, Len(b)))
    ELSE IF b[1] \in 224..239
         THEN /\ Len(b) >= 3
              /\ IsCont(b[2]) /\ IsCont(b[3])
              /\ (b[1] = 224 => b[2] >= 160)
              /\ (b[1] = 237 => b[2] <= 159)
              /\ IsUtf8(SubSeq(b, 4, Len(b)))
    ELSE IF b[1] \in 240..244
         THEN /\ Len(b) >= 4
              /\ IsCont(b[2]) /\ IsCont(b[3]) /\ IsCont(b[4])
              /\ (b[1] = 240 => b[2] >= 144)
              /\ (b[1] = 244 => b[2] <= 143)
              /\ IsUtf8(SubSeq(b, 5, Len(b)))
    ELSE FALSE

\* ----------------------------------------------- passphrase cipher (age)
\* An age file: a header naming the format and the recipient stanza (scrypt
\* for a passphrase, X25519 for a key pair) with its salt and a key check,
\* then the payload under the derived key, then the payload's tag.
AGE_MAGIC == 97
STANZA_SCRYPT == 115
STANZA_X25519 == 88
HEADER_LEN == 4

Salts == 1..NumSalts

\* The key derived from a passphrase and the salt of the header.
Kdf(phrase, salt) == (SumBytes(phrase) + 7 * Len(phrase) + salt) % 256

KeyCheck(k) == 255 - k

PayloadTag(pt, k) == (SumBytes(pt) + Len(pt) + k) % 256

\* Encryptor::with_user_passphrase(phrase).wrap_output(..), write_all, finish
Encrypt(pt, phrase, salt) ==
    LET k == Kdf(phrase, salt)
    IN  <<AGE_MAGIC, STANZA_SCRYPT, salt, KeyCheck(k)>>
        \o [i \in 1..Len(pt) |-> (pt[i] + k) % 256]
        \o <<PayloadTag(pt, k)>>

\* Decryptor::new: "passphrase", "recipients", or "error" for bytes that are
\* no age file.
DecryptorNew(bytes) ==
    IF Len(bytes) < HEADER_LEN + 1 \/ bytes[1] # AGE_MAGIC THEN "error"
    ELSE IF bytes[2] = STANZA_SCRYPT THEN "passphrase"
    ELSE IF bytes[2] = STANZA_X25519 THEN "recipients"
    ELSE "error"

\* decryptor.decrypt(&phrase, None) and read_to_end: an error for a wrong
\* passphrase (the key check of the header) or a payload whose tag is wrong.
Decrypt(bytes, phrase) ==
    LET k  == Kdf(phrase, bytes[3])
        n  == Len(bytes) - HEADER_LEN - 1
        pt == [i \in 1..n |-> (bytes[HEADER_LEN + i] + 256 - k) % 256]
    IN  IF bytes[4] # KeyCheck(k) \/ bytes[Len(bytes)] # PayloadTag(pt, k)
        THEN [ok |-> FALSE, bytes |-> <<>>]
        ELSE [ok |-> TRUE, bytes |-> pt]

\* ------------------------------------------------- TOML string values
HasControl(s) ==
    \E i \in 1..Len(s) : (s[i] <= 31 /\ s[i] \notin {9, NEWLINE}) \/ s[i] = 127

RECURSIVE EscapeBasic(_)
\* The escapes of a basic ("...") string.
EscapeBasic(s) ==
    IF s = <<>> THEN <<>>
    ELSE (CASE s[1] = 8 -> <<BSLASH, 98>>
            [] s[1] = 9 -> <<BSLASH, 116>>
            [] s[1] = NEWLINE -> <<BSLASH, 110>>
            [] s[1] = 12 -> <<BSLASH, 102>>
            [] s[1] = 13 -> <<BSLASH, 114>>
            [] s[1] = DQUOTE -> <<BSLASH, DQUOTE>>
            [] s[1] = BSLASH -> <<BSLASH, BSLASH>>
            [] s[1] <= 31 \/ s[1] = 127 ->
                 <<BSLASH, 117, 48, 48, HexDigit(s[1] \div 16), HexDigit(s[1] % 16)>>
            [] OTHER -> <<s[1]>>)
         \o EscapeBasic(Tail(s))

\* The text of a string value in the document: basic with its escapes, or
\* literal (single quotes, tripled around a value that holds one).
Repr(val, style) ==
    IF style = "literal"
    THEN LET q == IF \E i \in 1..Len(val) : val[i] = SQUOTE
                  THEN <<SQUOTE, SQUOTE, SQUOTE>> ELSE <<SQUOTE>>
         IN  q \o val \o q
    ELSE <<DQUOTE>> \o EscapeBasic(val) \o <<DQUOTE>>

\* The styles the serializer gives a newly set value: literal when the value
\* holds a backslash and can be written unescaped; for a double quote the
\* choice differs between releases of the serializer, so both are outcomes.
ReprStyles(val) ==
    LET has(c) == \E i \in 1..Len(val) : val[i] = c
        pretty == /\ ~HasControl(val)
                  /\ ~has(NEWLINE)
                  /\ (val = <<>> \/ val[Len(val)] # SQUOTE)
                  /\ \A i \in 1..Len(val) - 2 :
                        ~(val[i] = SQUOTE /\ val[i+1] = SQUOTE /\ val[i+2] = SQUOTE)
    IN  IF ~pretty THEN {"basic"}
        ELSE IF has(BSLASH) THEN {"literal"}
        ELSE IF has(DQUOTE) THEN {"basic", "literal"}
        ELSE {"basic"}

\* Item::to_string of a value read from the document: the space after the
\* "=" (the value's decor), then the value's text.
ItemToString(tok) == <<SPACE>> \o Repr(tok.val, tok.style)

\* ---------------------------------------------------- credential store
Repos == {"pypi", "testpypi"}

\* A repository's table: its token (value and text style) and the one other
\* field followed here, username.
EmptyTable == [token |-> None, username |-> None]

EmptyStore == [r \in Repos |-> None]

\* credentials.entry(repository).or_insert(Item::Table(Table::new()))
EntryOrInsert(store, repo) ==
    IF IsSome(store[repo]) THEN store
    ELSE [store EXCEPT ![repo] = Some(EmptyTable)]

\* Mutant of SetToken: the record is replaced by a new table with the token.
SetToken_NewTable(store, repo, value) ==
    [store EXCEPT ![repo] =
        Some([EmptyTable EXCEPT !.token = Some([val |-> value, style |-> "unset"])])]

\* credentials[repository]["token"] = Item::Value(value.into()): the value
\* has no text until the document is written.
SetToken(store, repo, value) ==
    [store EXCEPT ![repo] =
        Some([Get(@) EXCEPT !.token = Some([val |-> value, style |-> "unset"])])]

\* credentials.get(repository).and_then(|table| table.get("token"))
\*     .map(|token| token.to_string()).map(escape_string)
StoredToken(store, repo) ==
    IF IsSome(store[repo]) /\ IsSome(Get(store[repo]).token)
    THEN Some(escape_string(ItemToString(Get(Get(store[repo]).token))))
    ELSE None

\* The document as written: a value set in this run gets its text.
Serialize(store, st) ==
    [r \in Repos |->
        IF IsSome(store[r]) /\ IsSome(Get(store[r]).token)
           /\ Get(Get(store[r]).token).style = "unset"
        THEN Some([Get(store[r]) EXCEPT !.token =
                      Some([val |-> Get(@).val, style |-> st])])
        ELSE store[r]]

\* ------------------------------------------------------ pure functions
\* prompt_maybe_encrypt, after the passphrase was read
prompt_maybe_encrypt(secret, phrase, salt) ==
    IF phrase = <<>> THEN secret
    ELSE Encrypt(secret, phrase, salt)

\* Mutant of maybe_encode: the comparison inverted.
maybe_encode_Inverted(original_secret, new_secret) ==
    IF original_secret = new_secret THEN HexEncode(new_secret)
    ELSE original_secret

\* maybe_encode: hex of the new secret when its bytes differ from the
\* original's, else the original
maybe_encode(original_secret, new_secret) ==
    IF original_secret # new_secret THEN HexEncode(new_secret)
    ELSE original_secret

\* Mutant of prompt_maybe_decrypt: a stored string that cannot be decoded or
\* decrypted is taken as the token.
prompt_maybe_decrypt_Fallback(secret, phrase) ==
    IF phrase = <<>> THEN [ok |-> TRUE, val |-> secret, err |-> ""]
    ELSE
      LET dec == HexDecode(pad_hex(secret))
      IN  IF \/ ~dec.ok
             \/ DecryptorNew(dec.bytes) # "passphrase"
             \/ ~Decrypt(dec.bytes, phrase).ok
          THEN [ok |-> TRUE, val |-> secret, err |-> ""]
          ELSE [ok |-> TRUE, val |-> Decrypt(dec.bytes, phrase).bytes, err |-> ""]

\* prompt_maybe_decrypt, after the passphrase was read
prompt_maybe_decrypt(secret, phrase) ==
    IF phrase = <<>> THEN [ok |-> TRUE, val |-> secret, err |-> ""]
    ELSE
      LET dec == HexDecode(pad_hex(secret))
      IN  IF ~dec.ok THEN [ok |-> FALSE, val |-> <<>>, err |-> "hex"]
          ELSE
            LET kind == DecryptorNew(dec.bytes)
            IN  IF kind = "error"
                THEN [ok |-> FALSE, val |-> <<>>, err |-> "format"]
                ELSE IF kind = "recipients"
                THEN [ok |-> FALSE, val |-> <<>>, err |-> "failed to decrypt"]
                ELSE
                  LET pt == Decrypt(dec.bytes, phrase)
                  IN  IF ~pt.ok
                      THEN [ok |-> FALSE, val |-> <<>>, err |-> "decrypt"]
                      ELSE IF ~IsUtf8(pt.bytes)
                      THEN [ok |-> FALSE, val |-> <<>>, err |-> "failed to parse utf-8"]
                      ELSE [ok |-> TRUE, val |-> pt.bytes, err |-> ""]

\* -------------------------------------------------------------- inputs
TokPlain == <<103, 55>>
TokQuote == <<97, DQUOTE, 98>>
TokOdd == <<54>>
TokRecipients == HexEncode(<<AGE_MAGIC, STANZA_X25519, 1, 1, 0>>)

\* --token values: g7, a"b, 6 (hex digits of odd length), and the hex of an
\* age file for a key pair
Tokens == {TokPlain, TokQuote, TokOdd, TokRecipients}

\* Lines read_line can return at the token prompt.
Lines == {<<NEWLINE>>, <<SPACE, 9, NEWLINE>>,
          <<SPACE>> \o TokPlain \o <<13, NEWLINE>>, TokQuote \o <<NEWLINE>>}

\* Passphrases: none, p, q
Phrases == {<<>>, <<112>>, <<113>>}

Domains == {"upload.pypi.org", "test.pypi.org"}

\* Credentials files found at the first run: none, or one that holds another
\* field of a repository.
InitFiles ==
    {None,
     Some([EmptyStore EXCEPT !["pypi"] =
              Some([token |-> None, username |-> Some(<<117>>)])])}

\* --------------------------------------------------------------- state
VARIABLES
    file,         \* the credentials file: None, or Some(document)
    pc,           \* position of the running invocation of execute
    cmd,          \* its arguments
    credentials,  \* its in-memory document
    branch,       \* the branch of the token `if` that was entered
    secret,       \* the branch's Secret<String>
    phrase,       \* the passphrase read
    token,        \* the token the `if` evaluated to
    err,          \* the error the invocation ended with
    reads,        \* calls of get_credentials in this invocation
    writes,       \* calls of write_credentials
    written,      \* whether write_credentials succeeded
    uploads,      \* runs of the upload command
    uploaded,     \* the --password the upload command was given
    asked,        \* whether the token prompt was shown
    input,        \* the line read at the token prompt
    passAsked,    \* whether a passphrase prompt was shown
    fileAtStart,  \* the file when the invocation began
    lastStored    \* per repository: token and passphrase of the last write

vars == <<file, pc, cmd, credentials, branch, secret, phrase, token, err, reads,
          writes, written, uploads, uploaded, asked, input, passAsked,
          fileAtStart, lastStored>>

NoCmd == [repository |-> "pypi", domain |-> "upload.pypi.org", token |-> None]

\* The per-invocation part of the state, before execute runs.
Fresh ==
    /\ credentials = EmptyStore
    /\ branch = "none"
    /\ secret = None
    /\ phrase = None
    /\ token = None
    /\ err = ""
    /\ reads = 0
    /\ writes = 0
    /\ written = FALSE
    /\ uploads = 0
    /\ uploaded = None
    /\ asked = FALSE
    /\ input = None
    /\ passAsked = FALSE

Init ==
    /\ file \in InitFiles
    /\ pc = "idle"
    /\ cmd = NoCmd
    /\ Fresh
    /\ fileAtStart = file
    /\ lastStored = [r \in Repos |-> None]

\* ------------------------------------------------------------- actions
\* get_credentials: the document of the file, an empty one when there is no
\* file.
get_credentials == IF IsSome(file) THEN Get(file) ELSE EmptyStore

\* write_credentials: the file becomes the document, each new value written
\* in style st.
write_credentials(doc, st) == Some(Serialize(doc, st))

\* execute is called: ensure_self_venv and PyProject::discover, which can
\* fail, and the files to publish.
Begin(repo, domain, tok, ok) ==
    /\ pc = "idle"
    /\ cmd' = [repository |-> repo, domain |-> domain, token |-> tok]
    /\ fileAtStart' = file
    /\ IF ok THEN pc' = "check" /\ err' = ""
             ELSE pc' = "failed" /\ err' = "preflight"
    /\ UNCHANGED <<file, credentials, branch, secret, phrase, token, reads, writes,
                   written, uploads, uploaded, asked, input, passAsked, lastStored>>

\* If -r is pypi but the url isn't pypi then bail.
CheckUrl ==
    /\ pc = "check"
    /\ IF cmd.repository = "pypi" /\ cmd.domain # "upload.pypi.org"
       THEN pc' = "failed" /\ err' = "invalid pypi url"
       ELSE pc' = "load" /\ err' = err
    /\ UNCHANGED <<file, cmd, credentials, branch, secret, phrase, token, reads,
                   writes, written, uploads, uploaded, asked, input, passAsked,
                   fileAtStart, lastStored>>

\* let mut credentials = get_credentials()?; and the entry of the repository
Load(ok) ==
    /\ pc = "load"
    /\ reads' = reads + 1
    /\ IF ok
       THEN /\ credentials' = EntryOrInsert(get_credentials, cmd.repository)
            /\ pc' = "branch"
            /\ err' = err
       ELSE /\ credentials' = credentials
            /\ pc' = "failed"
            /\ err' = "io"
    /\ UNCHANGED <<file, cmd, branch, secret, phrase, token, writes, written,
                   uploads, uploaded, asked, input, passAsked, fileAtStart,
                   lastStored>>

\* if let Some(token) = cmd.token
EnterExplicit ==
    /\ pc = "branch"
    /\ IsSome(cmd.token)
    /\ branch' = "explicit"
    /\ secret' = cmd.token
    /\ pc' = "encrypt"
    /\ UNCHANGED <<file, cmd, credentials, phrase, token, err, reads, writes,
                   written, uploads, uploaded, asked, input, passAsked,
                   fileAtStart, lastStored>>

\* Mutant of EnterStored: the stored token is looked up before the explicit
\* one.
EnterStored_NoPrecedence ==
    /\ pc = "branch"
    /\ IsSome(StoredToken(credentials, cmd.repository))
    /\ branch' = "stored"
    /\ secret' = StoredToken(credentials, cmd.repository)
    /\ pc' = "decrypt"
    /\ UNCHANGED <<file, cmd, credentials, phrase, token, err, reads, writes,
                   written, uploads, uploaded, asked, input, passAsked,
                   fileAtStart, lastStored>>

\* Mutant of EnterStored: the credentials file is read again for the lookup.
EnterStored_Reload ==
    /\ pc = "branch"
    /\ ~IsSome(cmd.token)
    /\ IsSome(StoredToken(credentials, cmd.repository))
    /\ branch' = "stored"
    /\ secret' = StoredToken(credentials, cmd.repository)
    /\ reads' = reads + 1
    /\ pc' = "decrypt"
    /\ UNCHANGED <<file, cmd, credentials, phrase, token, err, writes,
                   written, uploads, uploaded, asked, input, passAsked,
                   fileAtStart, lastStored>>

\* else if let Some(token) = the stored token, escaped
EnterStored ==
    /\ pc = "branch"
    /\ ~IsSome(cmd.token)
    /\ IsSome(StoredToken(credentials, cmd.repository))
    /\ branch' = "stored"
    /\ secret' = StoredToken(credentials, cmd.repository)
    /\ pc' = "decrypt"
    /\ UNCHANGED <<file, cmd, credentials, phrase, token, err, reads, writes,
                   written, uploads, uploaded, asked, input, passAsked,
                   fileAtStart, lastStored>>

\* Mutant of prompt_for_token: the line is not trimmed.
prompt_for_token_NoTrim(line) == line

\* prompt_for_token / get_trimmed_user_input on the line read
prompt_for_token(line) == Trim(line)

\* else: prompt_for_token, and bail on an empty token
EnterPrompt(line, ok) ==
    /\ pc = "branch"
    /\ ~IsSome(cmd.token)
    /\ ~IsSome(StoredToken(credentials, cmd.repository))
    /\ branch' = "prompt"
    /\ asked' = TRUE
    /\ input' = IF ok THEN Some(line) ELSE None
    /\ IF ~ok
       THEN pc' = "failed" /\ err' = "failed to read provided token" /\ secret' = secret
       ELSE IF prompt_for_token(line) = <<>>
       THEN pc' = "failed" /\ err' = "an access token is required" /\ secret' = secret
       ELSE pc' = "encrypt" /\ err' = err /\ secret' = Some(prompt_for_token(line))
    /\ UNCHANGED <<file, cmd, credentials, phrase, token, reads, writes, written,
                   uploads, uploaded, passAsked, fileAtStart, lastStored>>

\* prompt_maybe_encrypt, maybe_encode and the assignment of the token field
\* (both write branches); ok is whether the prompt and the encryptor worked.
PromptMaybeEncrypt(p, salt, ok) ==
    /\ pc = "encrypt"
    /\ passAsked' = TRUE
    /\ IF ok
       THEN LET maybe_encrypted == prompt_maybe_encrypt(Get(secret), p, salt)
                maybe_encoded == maybe_encode(Get(secret), maybe_encrypted)
            IN  /\ phrase' = Some(p)
                /\ credentials' = SetToken(credentials, cmd.repository, maybe_encoded)
                /\ pc' = "write"
                /\ err' = err
       ELSE /\ phrase' = phrase
            /\ credentials' = credentials
            /\ pc' = "failed"
            /\ err' = "passphrase"
    /\ UNCHANGED <<file, cmd, branch, secret, token, reads, writes, written,
                   uploads, uploaded, asked, input, fileAtStart, lastStored>>

\* write_credentials(&credentials)?; and the branch's value, secret
WriteCredentials(st, ok) ==
    /\ pc = "write"
    /\ st \in ReprStyles(Get(Get(credentials[cmd.repository]).token).val)
    /\ writes' = writes + 1
    /\ written' = ok
    /\ IF ok
       THEN /\ file' = write_credentials(credentials, st)
            /\ token' = secret
            /\ lastStored' = [lastStored EXCEPT ![cmd.repository] =
                                 Some([tok |-> Get(secret), phrase |-> Get(phrase)])]
            /\ pc' = "upload"
            /\ err' = err
       ELSE /\ UNCHANGED <<file, token, lastStored>>
            /\ pc' = "failed"
            /\ err' = "io"
    /\ UNCHANGED <<cmd, credentials, branch, secret, phrase, reads, uploads,
                   uploaded, asked, input, passAsked, fileAtStart>>

\* Mutant of PromptMaybeDecrypt: the decrypted token is written back to the
\* credentials file.
PromptMaybeDecrypt_Persist(p, ok) ==
    /\ pc = "decrypt"
    /\ passAsked' = TRUE
    /\ IF ok
       THEN LET r == prompt_maybe_decrypt(Get(secret), p)
            IN  /\ phrase' = Some(p)
                /\ IF r.ok
                   THEN /\ token' = Some(r.val)
                        /\ file' = write_credentials(
                                      SetToken(credentials, cmd.repository, r.val), "basic")
                        /\ pc' = "upload"
                        /\ err' = err
                   ELSE token' = token /\ file' = file /\ pc' = "failed" /\ err' = r.err
       ELSE /\ phrase' = phrase
            /\ token' = token
            /\ file' = file
            /\ pc' = "failed"
            /\ err' = "passphrase"
    /\ UNCHANGED <<cmd, credentials, branch, secret, reads, writes, written,
                   uploads, uploaded, asked, input, fileAtStart, lastStored>>

\* prompt_maybe_decrypt(&secret)? (the stored branch)
PromptMaybeDecrypt(p, ok) ==
    /\ pc = "decrypt"
    /\ passAsked' = TRUE
    /\ IF ok
       THEN LET r == prompt_maybe_decrypt(Get(secret), p)
            IN  /\ phrase' = Some(p)
                /\ IF r.ok
                   THEN token' = Some(r.val) /\ pc' = "upload" /\ err' = err
                   ELSE token' = token /\ pc' = "failed" /\ err' = r.err
       ELSE /\ phrase' = phrase
            /\ token' = token
            /\ pc' = "failed"
            /\ err' = "passphrase"
    /\ UNCHANGED <<file, cmd, credentials, branch, secret, reads, writes, written,
                   uploads, uploaded, asked, input, fileAtStart, lastStored>>

\* Mutant of Upload: a failed upload restores the credentials file.
Upload_Rollback(ok) ==
    /\ pc = "upload"
    /\ uploads' = uploads + 1
    /\ uploaded' = token
    /\ IF ok THEN pc' = "done" /\ err' = err /\ file' = file
             ELSE pc' = "failed" /\ err' = "failed to publish files" /\ file' = fileAtStart
    /\ UNCHANGED <<cmd, credentials, branch, secret, phrase, token, reads,
                   writes, written, asked, input, passAsked, fileAtStart,
                   lastStored>>

\* The twine upload with --password token; ok is its exit status.
Upload(ok) ==
    /\ pc = "upload"
    /\ uploads' = uploads + 1
    /\ uploaded' = token
    /\ IF ok THEN pc' = "done" /\ err' = err
             ELSE pc' = "failed" /\ err' = "failed to publish files"
    /\ UNCHANGED <<file, cmd, credentials, branch, secret, phrase, token, reads,
                   writes, written, asked, input, passAsked, fileAtStart,
                   lastStored>>

\* execute returns; the next invocation starts from the file alone.
Exit ==
    /\ pc \in {"done", "failed"}
    /\ pc' = "idle"
    /\ cmd' = NoCmd
    /\ credentials' = EmptyStore
    /\ branch' = "none"
    /\ secret' = None
    /\ phrase' = None
    /\ token' = None
    /\ err' = ""
    /\ reads' = 0
    /\ writes' = 0
    /\ written' = FALSE
    /\ uploads' = 0
    /\ uploaded' = None
    /\ asked' = FALSE
    /\ input' = None
    /\ passAsked' = FALSE
    /\ fileAtStart' = file
    /\ UNCHANGED <<file, lastStored>>

Next ==
    \/ \E repo \in Repos, domain \in Domains, tok \in {None} \cup {Some(t) : t \in Tokens},
          ok \in BOOLEAN : Begin(repo, domain, tok, ok)
    \/ CheckUrl
    \/ \E ok \in BOOLEAN : Load(ok)
    \/ EnterExplicit
    \/ EnterStored
    \/ \E line \in Lines, ok \in BOOLEAN : EnterPrompt(line, ok)
    \/ \E p \in Phrases, salt \in Salts, ok \in BOOLEAN : PromptMaybeEncrypt(p, salt, ok)
    \/ \E st \in {"basic", "literal"}, ok \in BOOLEAN : WriteCredentials(st, ok)
    \/ \E p \in Phrases, ok \in BOOLEAN : PromptMaybeDecrypt(p, ok)
    \/ \E ok \in BOOLEAN : Upload(ok)
    \/ Exit

Spec == Init /\ [][Next]_vars

\* ------------------------------------------------------------- claims
\* The document the invocation found.
StartStore == IF IsSome(fileAtStart) THEN Get(fileAtStart) ELSE EmptyStore

\* Whether the document found held a token for the repository, and its value.
HadToken ==
    /\ IsSome(StartStore[cmd.repository])
    /\ IsSome(Get(StartStore[cmd.repository]).token)

OldToken == Get(Get(StartStore[cmd.repository]).token).val

\* Whether the file now holds a token for the repository.
FileHasToken ==
    /\ IsSome(file)
    /\ IsSome(Get(file)[cmd.repository])
    /\ IsSome(Get(Get(file)[cmd.repository]).token)

\* The token value of the repository in the file now.
FileToken == Get(Get(Get(file)[cmd.repository]).token).val

Terminal == pc \in {"done", "failed"}

WriteBranch == branch \in {"explicit", "prompt"}

\* C1 (state part): the branch entered is the first of explicit, stored,
\* prompted whose source is there; with an explicit token the upload gets
\* that token, no token prompt is shown, and a write puts the new value in
\* the record's token field whether or not a token was stored before.
C1_BranchOrder ==
    /\ branch = "explicit" => IsSome(cmd.token)
    /\ branch = "stored" => ~IsSome(cmd.token) /\ HadToken
    /\ branch = "prompt" => ~IsSome(cmd.token) /\ ~HadToken
    /\ pc \in {"encrypt", "write", "decrypt", "upload", "done"} => branch # "none"
    /\ IsSome(cmd.token) =>
         /\ ~asked
         /\ secret \in {None, cmd.token}
         /\ token \in {None, cmd.token}
         /\ uploaded \in {None, cmd.token}
         /\ written =>
              /\ Get(phrase) = <<>> => FileToken = Get(cmd.token)
              /\ Get(phrase) # <<>> =>
                   \E salt \in Salts :
                      FileToken = HexEncode(Encrypt(Get(cmd.token), Get(phrase), salt))

\* C1: precedence explicit > stored > prompted; one branch per invocation,
\* kept once entered, also when it fails.
C1_Precedence ==
    /\ []C1_BranchOrder
    /\ [][branch # "none" /\ pc' # "idle" => branch' = branch]_vars

\* C1 witness: an explicit token given while another token was stored for the
\* repository, written and uploaded.
C1_Witness ==
    /\ pc = "done"
    /\ branch = "explicit"
    /\ HadToken
    /\ OldToken # Get(cmd.token)
    /\ written
    /\ FileToken = Get(cmd.token)
    /\ uploaded = cmd.token

\* C2: a token stored by a write branch under a non-empty passphrase is what
\* a later invocation for the repository resolves with that passphrase.
C2_RoundTrip ==
    (/\ branch = "stored"
     /\ IsSome(phrase)
     /\ Get(phrase) # <<>>
     /\ IsSome(lastStored[cmd.repository])
     /\ Get(lastStored[cmd.repository]).phrase = Get(phrase))
    => /\ token = Some(Get(lastStored[cmd.repository]).tok)
       /\ pc \in {"upload", "done"} \/ err = "failed to publish files"
       /\ uploaded \in {None, token}

\* C2 witness: the token a"b, stored under passphrase p, uploaded by a later
\* invocation that was given p.
C2_Witness ==
    /\ pc = "done"
    /\ branch = "stored"
    /\ phrase = Some(<<112>>)
    /\ Get(lastStored[cmd.repository]).phrase = <<112>>
    /\ uploaded = Some(TokQuote)

\* Whether decoding or decrypting the stored string with the passphrase fails.
DecryptFails(s, p) ==
    LET dec == HexDecode(pad_hex(s))
    IN  \/ ~dec.ok
        \/ DecryptorNew(dec.bytes) # "passphrase"
        \/ ~Decrypt(dec.bytes, p).ok

\* C3: in the stored branch with a non-empty passphrase, a failure to decode
\* or decrypt ends the invocation in an error without an upload, and the
\* stored string is never the token.
C3_NoPlaintextFallback ==
    (branch = "stored" /\ IsSome(phrase) /\ Get(phrase) # <<>>)
    => /\ token # secret
       /\ token # Some(OldToken)
       /\ uploaded \notin {secret, Some(OldToken)}
       /\ DecryptFails(Get(secret), Get(phrase)) =>
            /\ pc = "failed"
            /\ err \in {"hex", "format", "failed to decrypt", "decrypt"}
            /\ token = None
            /\ uploads = 0
            /\ uploaded = None

\* C3 witness: a token stored with an empty passphrase, read with passphrase
\* p: the invocation failed.
C3_Witness ==
    /\ pc = "failed"
    /\ branch = "stored"
    /\ phrase = Some(<<112>>)
    /\ IsSome(lastStored[cmd.repository])
    /\ Get(lastStored[cmd.repository]).phrase = <<>>
    /\ Get(lastStored[cmd.repository]).tok = TokPlain
    /\ uploads = 0

\* C4: in the stored branch with an empty passphrase the resolved token is
\* the stored token string verbatim, for every stored string.
C4_StoredVerbatim ==
    (branch = "stored" /\ phrase = Some(<<>>) /\ pc \in {"upload", "done"})
    => token = Some(OldToken)

\* C5: the stored branch never writes the credentials file.
C5_StoredBranchNoWrite ==
    branch = "stored" => file = fileAtStart /\ writes = 0 /\ ~written

\* C5 witness: the stored branch ended in a failed decryption (a wrong
\* passphrase).
C5_Witness ==
    /\ Terminal
    /\ branch = "stored"
    /\ IsSome(phrase)
    /\ Get(phrase) # <<>>
    /\ err = "decrypt"
    /\ file = fileAtStart

\* Whether a line read at the prompt holds nothing but whitespace.
Blank(line) == \A i \in 1..Len(line) : line[i] \in Whitespace

\* C6: an empty or whitespace-only line at the token prompt ends the
\* invocation with the missing-token error, before a passphrase prompt,
\* without a write and without an upload.
C6_EmptyPromptedToken ==
    (branch = "prompt" /\ IsSome(input) /\ Blank(Get(input)))
    => /\ pc = "failed"
       /\ err = "an access token is required"
       /\ ~passAsked
       /\ phrase = None
       /\ writes = 0
       /\ file = fileAtStart
       /\ uploads = 0
       /\ uploaded = None

\* C6 witness: the line of a space and a tab was read at the prompt.
C6_Witness ==
    /\ pc = "failed"
    /\ branch = "prompt"
    /\ input = Some(<<SPACE, 9, NEWLINE>>)
    /\ ~HadToken
    /\ cmd.token = None

\* C7: after a write the stored token is T for an empty passphrase and the
\* hex of encrypt(T, P) for a non-empty one, the two cases differ exactly by
\* the passphrase being empty, and the token used is T.
C7_StoredFormat ==
    written =>
      LET T == Get(secret)
          P == Get(phrase)
      IN  /\ WriteBranch
          /\ branch = "explicit" => Some(T) = cmd.token
          /\ branch = "prompt" => ~Blank(T) /\ \E a, b \in 0..Len(Get(input)) :
                                     /\ Get(input) = SubSeq(Get(input), 1, a) \o T
                                                     \o SubSeq(Get(input), Len(Get(input)) - b + 1, Len(Get(input)))
                                     /\ Blank(SubSeq(Get(input), 1, a))
                                     /\ Blank(SubSeq(Get(input), Len(Get(input)) - b + 1, Len(Get(input))))
                                     /\ T[1] \notin Whitespace
                                     /\ T[Len(T)] \notin Whitespace
          /\ P = <<>> => FileToken = T
          /\ P # <<>> => \E salt \in Salts : FileToken = HexEncode(Encrypt(T, P, salt))
          /\ (FileToken = T) <=> (P = <<>>)
          /\ token = Some(T)
          /\ uploaded \in {None, Some(T)}

\* C7 witness: the token a"b written under passphrase q and uploaded as a"b.
C7_Witness ==
    /\ pc = "done"
    /\ written
    /\ phrase = Some(<<113>>)
    /\ secret = Some(TokQuote)
    /\ FileToken # TokQuote
    /\ uploaded = Some(TokQuote)

\* C8: a write changes nothing but the token field of the repository's
\* record: its other fields and the other repositories' records are those
\* the invocation loaded.
C8_WriteFrame ==
    written =>
      /\ IsSome(file)
      /\ \A r \in Repos \ {cmd.repository} : Get(file)[r] = StartStore[r]
      /\ IsSome(Get(file)[cmd.repository])
      /\ Get(Get(file)[cmd.repository]).username =
            (IF IsSome(StartStore[cmd.repository])
             THEN Get(StartStore[cmd.repository]).username
             ELSE None)

\* C8 witness: a token written for pypi, whose record holds a username, while
\* testpypi holds a token.
C8_Witness ==
    /\ pc = "done"
    /\ written
    /\ cmd.repository = "pypi"
    /\ Get(Get(file)["pypi"]).username = Some(<<117>>)
    /\ HadToken
    /\ FileToken # OldToken
    /\ IsSome(Get(file)["testpypi"])
    /\ IsSome(Get(Get(file)["testpypi"]).token)

\* Whether the invocation got past its passphrase prompt in a write branch.
PastEncryptPrompt == WriteBranch /\ IsSome(phrase)

\* The write counts of C9: one call of write_credentials once a write branch
\* is past its passphrase prompt, none on every other path.
C9_Writes ==
    /\ writes <= 1
    /\ Terminal => (writes = 1 <=> PastEncryptPrompt)
    /\ branch = "stored" => writes = 0
    /\ err \in {"invalid pypi url", "an access token is required",
                "failed to read provided token", "passphrase"} => writes = 0

\* C9 as claimed: each invocation that got to the checks of execute reads the
\* credentials file exactly once.
C9_ReadExactlyOnce ==
    /\ Terminal /\ err # "preflight" => reads = 1
    /\ branch # "none" => reads = 1
    /\ C9_Writes

\* C9 as amended: the file is read at most once, exactly once (before a
\* branch is chosen) in an invocation that passes the pypi url check and not
\* at all in one that ends before; the writes are as claimed.
C9_ReadAtMostOnce ==
    /\ reads <= 1
    /\ Terminal => (reads = 1 <=> err \notin {"preflight", "invalid pypi url"})
    /\ branch # "none" => reads = 1
    /\ C9_Writes

\* C9 witness: an invocation that ended on the invalid pypi url.
C9_Witness ==
    /\ pc = "failed"
    /\ err = "invalid pypi url"
    /\ reads = 0
    /\ writes = 0

\* C10 (state part): at most one upload, with the resolved token, and in a
\* write branch only after the write succeeded.
C10_UploadAfterWrite ==
    /\ uploads <= 1
    /\ uploads = 1 <=> IsSome(uploaded)
    /\ (uploads = 1 \/ pc = "upload") =>
         /\ IsSome(token)
         /\ uploaded \in {None, token}
         /\ err \in {"", "failed to publish files"}
         /\ WriteBranch =>
              /\ written
              /\ FileHasToken
              /\ FileToken = Get(Get(credentials[cmd.repository]).token).val
    /\ writes = 1 /\ ~written => pc = "failed" /\ uploads = 0

\* C10: the ordering of the write and the upload, and no rollback: once the
\* write succeeded the file stays as written, also when the upload fails.
C10_Ordering ==
    /\ []C10_UploadAfterWrite
    /\ [][written => file' = file]_vars
    /\ [][uploads' # uploads /\ pc' # "idle" =>
            pc = "upload" /\ (WriteBranch => written)]_vars

\* C10 witness: the upload failed after a write that changed the file.
C10_Witness ==
    /\ pc = "failed"
    /\ err = "failed to publish files"
    /\ written
    /\ file # fileAtStart
    /\ uploads = 1

====
